---- MODULE Spec2Model ----
(***************************************************************************)
(* Background GeoJSON import of src/server/routes/admin.py: the submission *)
(* handler import_geojson, the background task _background_import with its *)
(* bulk insert (_flush_batch) and its per-row fallback                      *)
(* (_flush_batch_individual), and the job record written by _update_job.   *)
(*                                                                         *)
(* The store is PostgreSQL reached through one SQLAlchemy AsyncSession     *)
(* (src/server/database.py: no autocommit, so every statement runs inside  *)
(* a transaction that only db.commit() ends).  The task never calls        *)
(* db.rollback().  The session is modelled by `sess`:                      *)
(*   idle     no transaction is open (start, or after a commit);           *)
(*   open     statements executed, not yet committed (rows in `pending`);  *)
(*   aborted  a statement raised inside the transaction: PostgreSQL        *)
(*            rejects every later statement of that transaction, and       *)
(*            COMMIT ends it by rolling back, without an error;            *)
(*   broken   the connection was lost inside the transaction or a commit   *)
(*            raised: every later execute and commit raises.               *)
(* A store operation raises either because of the data (a geometry that    *)
(* ST_GeomFromGeoJSON rejects) or because the store is unreachable or      *)
(* busy at that moment (a fault, at most MaxFaults per behaviour).         *)
(*                                                                         *)
(* Spec is one import, from the request to the end of the task.  Four      *)
(* further specifications exercise parts of the same store on their own:   *)
(*   LayerSpec  two sessions that run _upsert_layer and commit;            *)
(*   JobSpec    _update_job called with any choice of its arguments;       *)
(*   ApiSpec    the read endpoints of routes/admin.py and routes/layers.py *)
(*              called at any moment of a submission;                      *)
(*   PollSpec   one import whose job is polled while it runs.              *)
(***************************************************************************)
EXTENDS Integers, Sequences, FiniteSets, TLC

\* ---------------------------------------------------------------- bounds
MaxFeatures == 3
MaxBatchSize == 3
MaxSampleLimit == 2
MaxFaults == 2

\* ------------------------------------------------------ program constants
\* import_jobs.total has no DEFAULT: a new job row holds SQL NULL there.
Null == -1
\* _flush_batch_individual commits after every 20th successful insert.
CommitEvery == 20
\* srid: int = Form(4326)
DefaultSrid == 4326

\* A layer name or title is the sequence of its characters.  The name of the
\* layer this import goes to (layer_name: str = Form(...)):
LayerName == <<"p", "o", "p", "-", "d", "e", "n", "s", "i", "t", "y">>

\* ---------------------------------------------------------------- inputs
\* One entry of the payload's "features" list, by what the pipeline can
\* tell about it:
\*   valid      a dict whose geometry ST_GeomFromGeoJSON accepts
\*   invalid    a dict whose geometry is truthy but rejected by the store
\*   none       a dict whose geometry is null, absent or empty (falsy)
\*   malformed  not a dict at all (null, a number, a string): no .get
FeatureKinds == {"valid", "invalid", "none", "malformed"}

RECURSIVE SeqsUpTo(_, _)
SeqsUpTo(S, n) ==
    IF n = 0 THEN {<<>>}
    ELSE LET shorter == SeqsUpTo(S, n - 1)
         IN  shorter \cup {Append(s, x) : s \in {t \in shorter : Len(t) = n - 1}, x \in S}

\* A batch long enough to cross the fallback's commit interval: all rows
\* valid, or all valid but one invalid row at the given place.
LongLen == CommitEvery + 1
LongFeatures ==
    {[j \in 1..LongLen |-> "valid"]}
    \cup {[j \in 1..LongLen |-> IF j = p THEN "invalid" ELSE "valid"] : p \in {1, LongLen}}

\* The uploaded file, by what open(), json.load() and data.get() make of it.
Payloads ==
    {[kind |-> k, features |-> <<>>] :
        k \in {"unreadable", "not_json", "not_object", "object_no_features",
               "features_number"}}
    \cup {[kind |-> "features_string", features |-> [j \in 1..n |-> "malformed"]] : n \in 1..2}
    \cup {[kind |-> "collection", features |-> s] : s \in SeqsUpTo(FeatureKinds, MaxFeatures)}
    \cup {[kind |-> "collection", features |-> s] : s \in LongFeatures}

BatchSizes == (1..MaxBatchSize) \cup {LongLen}
SampleLimits == 1..MaxSampleLimit

VARIABLES
    \* inputs, fixed by Init
    payload,        \* the uploaded file's content
    batch_size,     \* int(os.getenv("IMPORT_BATCH_SIZE", "50"))
    sample_limit,   \* int(os.getenv("IMPORT_ERROR_SAMPLES", "5"))
    \* the store (committed state)
    tables,         \* the tables that exist, by name
    geo_layers,     \* set of rows [id, name, title, srid]
    geo_features,   \* sequence of rows [feat, layer_id], in commit order
    import_jobs,    \* sequence of job rows; a row's id is its position
    \* transient storage
    tmp_file,       \* TRUE while the temp upload file exists
    \* the request handler import_geojson
    rpc,            \* its position
    \* the background task _background_import
    pc,             \* its position
    sess,           \* its session's transaction state
    pending,        \* feature rows executed but not committed
    faults,         \* store faults so far
    job_id, features, total, layer_id,
    processed, errors, error_samples,
    batch, i, site,
    inserted, k,
    exc,            \* str(e) of the exception being handled
    escaped,        \* TRUE when an exception left the task uncaught
    remove_failed,  \* TRUE when os.remove(tmp_path) raised (and was swallowed)
    \* history
    flushLog,       \* the batches handed to _flush_batch, in order
    rowFails,       \* rows that raised in the current fallback pass
    fbStart,        \* rows in geo_features when the current fallback pass began
    layerCalls,     \* calls of _upsert_layer made by the task
    removeCalls,    \* calls of os.remove(tmp_path) made by the task
    \* the request's outputs
    bg_tasks,       \* background_tasks: the job ids handed to add_task
    response,       \* what import_geojson returned
    \* other callers of the same store
    calls,          \* concurrent callers of _upsert_layer + commit
    lookup,         \* the last layer lookup of get_layer_geojson
    lastUpdate,     \* the last direct call of _update_job and its arguments
    reply           \* the last reply of a read endpoint

inputVars == <<payload, batch_size, sample_limit>>
storeVars == <<tables, geo_layers, geo_features, import_jobs>>
taskVars  == <<pc, sess, pending, faults, job_id, features, total, layer_id,
               processed, errors, error_samples, batch, i, site, inserted, k,
               exc, escaped, remove_failed>>
histVars  == <<flushLog, rowFails, fbStart, layerCalls, removeCalls>>
submitVars == <<bg_tasks, response>>
sideVars  == <<calls, lookup, lastUpdate, reply>>
vars == <<inputVars, storeVars, tmp_file, rpc, taskVars, histVars, submitVars,
          sideVars>>

NoResponse == [status_code |-> 0, job_id |-> 0, status |-> ""]
NoCalls == <<>>
NoLookup == [q |-> <<>>, status_code |-> 0, id |-> 0, features |-> <<>>, error |-> ""]
NoUpdate == [n |-> 0, id |-> 0, upd |-> <<>>]
NoReply == [op |-> "none", status_code |-> 0, layers |-> {}, note |-> "",
            job |-> <<>>, error |-> ""]

NoMessage == [kind |-> "null", processed |-> 0, total |-> 0, errors |-> 0,
              samples |-> <<>>, text |-> ""]

\* The upload and the two settings of one import.
InputsInit ==
    /\ payload \in Payloads
    /\ batch_size \in BatchSizes
    /\ sample_limit \in SampleLimits
    /\ (Len(payload.features) > MaxFeatures) = (batch_size > MaxBatchSize)

\* A fresh database: no table exists yet.
StoreInit ==
    /\ tables = {}
    /\ geo_layers = {}
    /\ geo_features = <<>>
    /\ import_jobs = <<>>

\* No request received, no task scheduled.
RunInit ==
    /\ tmp_file = FALSE
    /\ rpc = "start"
    /\ pc = "unscheduled"
    /\ sess = "idle"
    /\ pending = <<>>
    /\ faults = 0
    /\ job_id = 0
    /\ features = <<>>
    /\ total = 0
    /\ layer_id = 0
    /\ processed = 0
    /\ errors = 0
    /\ error_samples = <<>>
    /\ batch = <<>>
    /\ i = 1
    /\ site = "loop"
    /\ inserted = 0
    /\ k = 1
    /\ exc = ""
    /\ escaped = FALSE
    /\ remove_failed = FALSE
    /\ flushLog = <<>>
    /\ rowFails = 0
    /\ fbStart = 0
    /\ layerCalls = 0
    /\ removeCalls = 0
    /\ bg_tasks = <<>>
    /\ response = NoResponse

Init ==
    /\ InputsInit
    /\ StoreInit
    /\ RunInit
    /\ calls = NoCalls
    /\ lookup = NoLookup
    /\ lastUpdate = NoUpdate
    /\ reply = NoReply

\* ------------------------------------------------------------ the store

\* _ensure_tables: CREATE TABLE IF NOT EXISTS geo_layers, geo_features,
\* import_jobs (and their indexes), then commit.
AllTables == {"geo_layers", "geo_features", "import_jobs"}
EnsureTables(existing) == existing \cup AllTables

\* _ensure_geo_tables of routes/layers.py: geo_layers and geo_features only.
GeoTables == {"geo_layers", "geo_features"}
EnsureGeoTables(existing) == existing \cup GeoTables

\* The session state a store fault leaves behind.  From idle the fault may
\* be a failure to get a connection (the session stays idle), a statement
\* that the store rejects for a passing reason (aborted) or a lost
\* connection (broken); inside a transaction only the last two.
FaultStates(s) ==
    IF s = "idle" THEN {"idle", "aborted", "broken"} ELSE {"aborted", "broken"}

Usable(s) == s \in {"idle", "open"}

\* _upsert_layer: INSERT ... ON CONFLICT (name) DO NOTHING, then SELECT id
\* WHERE name = :name.  The title stored is `title or name` (an absent or
\* empty title, <<>>, gives the name).
LayerIdOf(layers, name) ==
    IF \E l \in layers : l.name = name
    THEN (CHOOSE l \in layers : l.name = name).id
    ELSE 0

\* Variant: ON CONFLICT (name) DO UPDATE SET title, srid.
UpsertLayerOverwrite(layers, name, title, srid) ==
    {l \in layers : l.name # name}
    \cup {[id |-> IF \E l \in layers : l.name = name
                  THEN (CHOOSE l \in layers : l.name = name).id
                  ELSE Cardinality(layers) + 1,
           name |-> name,
           title |-> IF title = <<>> THEN name ELSE title,
           srid |-> srid]}

UpsertLayer(layers, name, title, srid) ==
    IF \E l \in layers : l.name = name
    THEN layers
    ELSE layers \cup {[id |-> Cardinality(layers) + 1, name |-> name,
                       title |-> IF title = <<>> THEN name ELSE title,
                       srid |-> srid]}

\* Variant: the job is inserted as processing.
NewJobProcessing(layer_name) ==
    [layer_name |-> layer_name, status |-> "processing", total |-> Null,
     processed |-> 0, errors |-> 0, message |-> NoMessage, updated_at |-> 0]

\* INSERT INTO import_jobs(layer_name, status, file_path) VALUES (.., 'queued', ..)
NewJob(layer_name) ==
    [layer_name |-> layer_name, status |-> "queued", total |-> Null,
     processed |-> 0, errors |-> 0, message |-> NoMessage, updated_at |-> 0]

\* _update_job: UPDATE import_jobs SET <the supplied fields>, updated_at
\* WHERE id = job_id.  `upd` holds exactly the supplied fields.
\* Variant: the UPDATE without its WHERE clause.
UpdateJobEveryRow(jobs, id, upd) ==
    [j \in DOMAIN jobs |->
        [f \in DOMAIN jobs[j] |->
            CASE f = "updated_at" -> jobs[j].updated_at + 1
              [] f \in DOMAIN upd -> upd[f]
              [] OTHER -> jobs[j][f]]]

UpdateJob(jobs, id, upd) ==
    [j \in DOMAIN jobs |->
        IF j # id THEN jobs[j]
        ELSE [f \in DOMAIN jobs[j] |->
                CASE f = "updated_at" -> jobs[j].updated_at + 1
                  [] f \in DOMAIN upd -> upd[f]
                  [] OTHER -> jobs[j][f]]]

\* ---------------------------------------- the request: import_geojson

\* except Exception as e: raise HTTPException(status_code=500, detail=str(e))
Http500 == [status_code |-> 500, job_id |-> 0, status |-> ""]

\* return {"job_id": job_id, "status": "queued"}
Accepted(id) == [status_code |-> 200, job_id |-> id, status |-> "queued"]

\* await _ensure_tables(db); a fault here becomes HTTP 500.
SubmitEnsureTables ==
    /\ rpc = "start"
    /\ \/ /\ tables' = EnsureTables(tables)
          /\ rpc' = "upsert"
          /\ UNCHANGED <<faults, response>>
       \/ /\ faults < MaxFaults
          /\ faults' = faults + 1
          /\ rpc' = "http500"
          /\ response' = Http500
          /\ UNCHANGED tables
    /\ UNCHANGED <<inputVars, sideVars, bg_tasks, geo_layers, geo_features, import_jobs, tmp_file,
                   pc, sess, pending, job_id, features, total, layer_id,
                   processed, errors, error_samples, batch, i, site, inserted,
                   k, exc, escaped, remove_failed, histVars>>

\* try: _upsert_layer + commit; except: rollback (errors ignored).
SubmitUpsertLayer ==
    /\ rpc = "upsert"
    /\ \/ /\ geo_layers' = UpsertLayer(geo_layers, LayerName, LayerName, DefaultSrid)
          /\ UNCHANGED faults
       \/ /\ faults < MaxFaults
          /\ faults' = faults + 1
          /\ UNCHANGED geo_layers
    /\ rpc' = "save_upload"
    /\ UNCHANGED <<inputVars, sideVars, submitVars, tables, geo_features, import_jobs, tmp_file,
                   pc, sess, pending, job_id, features, total, layer_id,
                   processed, errors, error_samples, batch, i, site, inserted,
                   k, exc, escaped, remove_failed, histVars>>

\* tempfile.NamedTemporaryFile(delete=False) creates the file; then
\* content = await file.read(); tmp.write(content).  When the read or the
\* write raises, the file exists already and the request ends in HTTP 500.
SubmitSaveUpload ==
    /\ rpc = "save_upload"
    /\ tmp_file' = TRUE
    /\ \/ /\ rpc' = "create_job"
          /\ UNCHANGED response
       \/ /\ rpc' = "http500"
          /\ response' = Http500
    /\ UNCHANGED <<inputVars, sideVars, bg_tasks, storeVars, taskVars, histVars>>

\* INSERT the queued job, commit, add_task, return {job_id, "queued"};
\* a fault becomes HTTP 500 (the temp file stays).
SubmitCreateJob ==
    /\ rpc = "create_job"
    /\ \/ /\ import_jobs' = Append(import_jobs, NewJob(LayerName))
          /\ job_id' = Len(import_jobs) + 1
          /\ bg_tasks' = Append(bg_tasks, job_id')
          /\ pc' = "scheduled"
          /\ response' = Accepted(job_id')
          /\ rpc' = "returned"
          /\ UNCHANGED faults
       \/ /\ faults < MaxFaults
          /\ faults' = faults + 1
          /\ rpc' = "http500"
          /\ response' = Http500
          /\ UNCHANGED <<import_jobs, job_id, pc, bg_tasks>>
    /\ UNCHANGED <<inputVars, sideVars, tables, geo_layers, geo_features, tmp_file,
                   sess, pending, features, total, layer_id,
                   processed, errors, error_samples, batch, i, site, inserted,
                   k, exc, escaped, remove_failed, histVars>>

\* ------------------------------------- the task: _background_import

parseVars == <<job_id, features, total, layer_id>>
countVars == <<processed, errors, error_samples>>
loopVars  == <<batch, i, site>>
fbVars    == <<inserted, k>>

Message(kind, p, t, e, samples, text) ==
    [kind |-> kind, processed |-> p, total |-> t, errors |-> e,
     samples |-> samples, text |-> text]

\* What open(tmp_path), json.load(f), data.get("features") or [] and
\* len(features) make of the payload: the features list, or the exception.
ParseOutcome(p) ==
    CASE p.kind = "unreadable" -> [ok |-> FALSE, err |-> "OSError"]
      [] p.kind = "not_json" -> [ok |-> FALSE, err |-> "JSONDecodeError"]
      [] p.kind = "not_object" -> [ok |-> FALSE, err |-> "AttributeError: no attribute get"]
      [] p.kind = "features_number" -> [ok |-> FALSE, err |-> "TypeError: no len()"]
      [] p.kind = "object_no_features" -> [ok |-> TRUE, features |-> <<>>]
      [] OTHER -> [ok |-> TRUE, features |-> p.features]

\* feat.get("geometry") is falsy: the feature is skipped and counted.
HasGeometry(kind) == kind \in {"valid", "invalid"}

\* ST_GeomFromGeoJSON accepts the row's geometry.
RowInsertable(kind) == kind = "valid"

\* Variant: the rows are written without the layer's id.
RowsOfNoLayer(b, lid) == [j \in 1..Len(b) |-> [feat |-> b[j], layer_id |-> 0]]

\* The rows of one INSERT .. SELECT: each item of the batch with :layer_id.
Rows(b, lid) == [j \in 1..Len(b) |-> [feat |-> b[j], layer_id |-> lid]]

\* Variant: every message is kept.
AddSampleUncapped(samples, what) == Append(samples, what)

\* error_samples.append(..) if len(error_samples) < sample_limit
AddSample(samples, what) ==
    IF Len(samples) < sample_limit THEN Append(samples, what) ELSE samples

\* await _ensure_tables(db), the first statement of the try block.
TaskEnsureTables ==
    /\ pc = "scheduled"
    /\ \/ /\ tables' = EnsureTables(tables)
          /\ pc' = "mark_processing"
          /\ UNCHANGED <<sess, faults, exc>>
       \/ /\ faults < MaxFaults
          /\ faults' = faults + 1
          /\ sess' \in FaultStates(sess)
          /\ exc' = "store unavailable"
          /\ pc' = "handler"
          /\ UNCHANGED tables
    /\ UNCHANGED <<inputVars, sideVars, submitVars, geo_layers, geo_features, import_jobs, tmp_file, rpc,
                   pending, parseVars, countVars, loopVars, fbVars, escaped, remove_failed, histVars>>

\* await _update_job(db, job_id, status_val="processing")
MarkProcessing ==
    /\ pc = "mark_processing"
    /\ \/ /\ import_jobs' = UpdateJob(import_jobs, job_id, [status |-> "processing"])
          /\ pc' = "parse"
          /\ UNCHANGED <<sess, faults, exc>>
       \/ /\ faults < MaxFaults
          /\ faults' = faults + 1
          /\ sess' \in FaultStates(sess)
          /\ exc' = "store unavailable"
          /\ pc' = "handler"
          /\ UNCHANGED import_jobs
    /\ UNCHANGED <<inputVars, sideVars, submitVars, tables, geo_layers, geo_features, tmp_file, rpc,
                   pending, parseVars, countVars, loopVars, fbVars, escaped, remove_failed, histVars>>

\* open + json.load; features = data.get("features") or []; total = len(features)
Parse ==
    /\ pc = "parse"
    /\ LET r == ParseOutcome(payload)
       IN  IF r.ok
           THEN /\ features' = r.features
                /\ total' = Len(r.features)
                /\ pc' = "set_total"
                /\ UNCHANGED exc
           ELSE /\ exc' = r.err
                /\ pc' = "handler"
                /\ UNCHANGED <<features, total>>
    /\ UNCHANGED <<inputVars, sideVars, submitVars, storeVars, tmp_file, rpc, sess, pending, faults,
                   job_id, layer_id, countVars, loopVars, fbVars, escaped, remove_failed, histVars>>

\* await _update_job(db, job_id, total=total)
SetTotal ==
    /\ pc = "set_total"
    /\ \/ /\ import_jobs' = UpdateJob(import_jobs, job_id, [total |-> total])
          /\ pc' = "upsert_layer"
          /\ UNCHANGED <<sess, faults, exc>>
       \/ /\ faults < MaxFaults
          /\ faults' = faults + 1
          /\ sess' \in FaultStates(sess)
          /\ exc' = "store unavailable"
          /\ pc' = "handler"
          /\ UNCHANGED import_jobs
    /\ UNCHANGED <<inputVars, sideVars, submitVars, tables, geo_layers, geo_features, tmp_file, rpc,
                   pending, parseVars, countVars, loopVars, fbVars, escaped, remove_failed, histVars>>

\* layer_id = await _upsert_layer(db, layer_name, layer_name, srid); commit
TaskUpsertLayer ==
    /\ pc = "upsert_layer"
    /\ layerCalls' = layerCalls + 1
    /\ \/ /\ geo_layers' = UpsertLayer(geo_layers, LayerName, LayerName, DefaultSrid)
          /\ layer_id' = LayerIdOf(geo_layers', LayerName)
          /\ pc' = "loop"
          /\ UNCHANGED <<sess, faults, exc>>
       \/ /\ faults < MaxFaults
          /\ faults' = faults + 1
          /\ sess' \in FaultStates(sess)
          /\ exc' = "store unavailable"
          /\ pc' = "handler"
          /\ UNCHANGED <<geo_layers, layer_id>>
    /\ UNCHANGED <<inputVars, sideVars, submitVars, tables, geo_features, import_jobs, tmp_file, rpc,
                   pending, job_id, features, total, countVars, loopVars, fbVars,
                   escaped, remove_failed, flushLog, rowFails, fbStart, removeCalls>>

\* Variant: the flush test written with > instead of >=.
BatchFullStrict(b, size) == Len(b) > size

\* if len(batch) >= batch_size
BatchFull(b, size) == Len(b) >= size

\* One turn of `for feat in features`, up to the flush test.
LoopStep ==
    /\ pc = "loop"
    /\ i <= Len(features)
    /\ LET feat == features[i]
       IN  CASE feat = "malformed" ->
                  \* feat.get raises AttributeError
                  /\ exc' = "AttributeError: no attribute get"
                  /\ pc' = "handler"
                  /\ UNCHANGED <<errors, batch, i, site>>
             [] ~HasGeometry(feat) /\ feat # "malformed" ->
                  \* errors += 1; continue
                  /\ errors' = errors + 1
                  /\ i' = i + 1
                  /\ UNCHANGED <<exc, pc, batch, site>>
             [] OTHER ->
                  /\ batch' = Append(batch, i)
                  /\ IF BatchFull(batch', batch_size)
                     THEN /\ pc' = "flush"
                          /\ site' = "loop"
                          /\ UNCHANGED i
                     ELSE /\ i' = i + 1
                          /\ UNCHANGED <<pc, site>>
                  /\ UNCHANGED <<exc, errors>>
    /\ UNCHANGED <<inputVars, sideVars, submitVars, storeVars, tmp_file, rpc, sess, pending, faults,
                   parseVars, processed, error_samples, fbVars, escaped, remove_failed, histVars>>

\* The loop is over: `if batch:` flushes the partial batch.
AfterLoop ==
    /\ pc = "loop"
    /\ i > Len(features)
    /\ IF batch # <<>>
       THEN pc' = "flush" /\ site' = "final"
       ELSE pc' = "complete" /\ UNCHANGED site
    /\ UNCHANGED <<inputVars, sideVars, submitVars, storeVars, tmp_file, rpc, sess, pending, faults,
                   parseVars, countVars, batch, i, fbVars, exc, escaped, remove_failed, histVars>>

\* After a flush and its progress update: `finally: batch = []` and the next
\* feature (in the loop), or on to the completion (after the loop).
ContinueAfterFlush ==
    IF site = "loop"
    THEN /\ batch' = <<>>
         /\ i' = i + 1
         /\ pc' = "loop"
    ELSE /\ pc' = "complete"
         /\ UNCHANGED <<batch, i>>

\* An exception leaves the `except` block of a flush: through
\* `finally: batch = []` (in the loop) to the outer handler.
LeaveToHandler ==
    /\ pc' = "handler"
    /\ batch' = IF site = "loop" THEN <<>> ELSE batch
    /\ UNCHANGED i

\* Variant: the counter restarts at every flush.
ProcessedAfterFlushRestart(p, n) == n

\* processed += len(batch), after a flush and after a fallback alike.
ProcessedAfterFlush(p, n) == p + n

\* Variant: the rows before the first rejected one are kept.
PersistedByFlushUpToError(b) ==
    SubSeq(b, 1, IF \A j \in 1..Len(b) : RowInsertable(features[b[j]])
                 THEN Len(b)
                 ELSE (CHOOSE j \in 1..Len(b) :
                          /\ ~RowInsertable(features[b[j]])
                          /\ \A h \in 1..(j - 1) : RowInsertable(features[b[h]])) - 1)

\* The rows that the one INSERT .. SELECT of _flush_batch adds: the whole
\* batch, or nothing when the store rejects one of its geometries.
PersistedByFlush(b) ==
    IF \A j \in 1..Len(b) : RowInsertable(features[b[j]]) THEN b ELSE <<>>

\* await _flush_batch(db, layer_id, srid, batch); processed += len(batch)
\* One INSERT .. SELECT over the whole batch, then commit.
FlushBatch ==
    /\ pc = "flush"
    /\ flushLog' = Append(flushLog, batch)
    /\ \/ /\ Usable(sess)
          /\ \A j \in 1..Len(batch) : RowInsertable(features[batch[j]])
          /\ geo_features' = geo_features \o pending
                                \o Rows(PersistedByFlush(batch), layer_id)
          /\ pending' = <<>>
          /\ sess' = "idle"
          /\ processed' = ProcessedAfterFlush(processed, Len(batch))
          /\ pc' = "progress"
          /\ UNCHANGED <<faults, exc>>
       \/ /\ Usable(sess)
          /\ \E j \in 1..Len(batch) : ~RowInsertable(features[batch[j]])
          /\ sess' = "aborted"
          /\ pending' = <<>>
          /\ geo_features' = geo_features \o Rows(PersistedByFlush(batch), layer_id)
          /\ exc' = "invalid geometry"
          /\ pc' = "batch_except"
          /\ UNCHANGED <<processed, faults>>
       \/ /\ Usable(sess)
          /\ faults < MaxFaults
          /\ faults' = faults + 1
          /\ sess' \in FaultStates(sess)
          /\ pending' = <<>>
          /\ exc' = "store unavailable"
          /\ pc' = "batch_except"
          /\ UNCHANGED <<geo_features, processed>>
    /\ UNCHANGED <<inputVars, sideVars, submitVars, tables, geo_layers, import_jobs, tmp_file, rpc,
                   parseVars, errors, error_samples, loopVars, fbVars, escaped,
                   remove_failed, rowFails, fbStart, layerCalls, removeCalls>>

\* await _update_job(db, job_id, processed=.., errors=.., message="Inserted ..")
\* still inside the flush's try block.
Progress ==
    /\ pc = "progress"
    /\ \/ /\ import_jobs' = UpdateJob(import_jobs, job_id,
                [processed |-> processed, errors |-> errors,
                 message |-> Message("progress", processed, total, errors, <<>>, "")])
          /\ ContinueAfterFlush
          /\ UNCHANGED <<sess, faults, exc>>
       \/ /\ faults < MaxFaults
          /\ faults' = faults + 1
          /\ sess' \in FaultStates(sess)
          /\ exc' = "store unavailable"
          /\ pc' = "batch_except"
          /\ UNCHANGED <<import_jobs, batch, i>>
    /\ UNCHANGED <<inputVars, sideVars, submitVars, tables, geo_layers, geo_features, tmp_file, rpc,
                   pending, parseVars, countVars, site, fbVars, escaped, remove_failed, histVars>>

\* except Exception as e: a sample of the batch error, then the fallback.
BatchExcept ==
    /\ pc = "batch_except"
    /\ error_samples' = AddSample(error_samples, "batch error")
    /\ inserted' = 0
    /\ k' = 1
    /\ rowFails' = 0
    /\ fbStart' = Len(geo_features)
    /\ pc' = "fallback"
    /\ UNCHANGED <<inputVars, sideVars, submitVars, storeVars, tmp_file, rpc, sess, pending, faults,
                   parseVars, processed, errors, loopVars, exc, escaped,
                   remove_failed, flushLog, layerCalls, removeCalls>>

\* One turn of `for item in batch` in _flush_batch_individual: the INSERT,
\* inserted += 1, the commit after every CommitEvery-th insert; an exception
\* of any of them is caught, reported through on_error, and the row skipped.
FallbackRow ==
    /\ pc = "fallback"
    /\ k <= Len(batch)
    /\ k' = k + 1
    /\ \/ \* the INSERT succeeds
          /\ Usable(sess)
          /\ RowInsertable(features[batch[k]])
          /\ inserted' = inserted + 1
          /\ \/ /\ inserted' % CommitEvery # 0
                /\ pending' = Append(pending, [feat |-> batch[k], layer_id |-> layer_id])
                /\ sess' = "open"
                /\ UNCHANGED <<geo_features, faults, error_samples, rowFails>>
             \/ /\ inserted' % CommitEvery = 0
                /\ geo_features' = geo_features \o
                        Append(pending, [feat |-> batch[k], layer_id |-> layer_id])
                /\ pending' = <<>>
                /\ sess' = "idle"
                /\ UNCHANGED <<faults, error_samples, rowFails>>
             \/ \* the commit raises: caught like a row error
                /\ inserted' % CommitEvery = 0
                /\ faults < MaxFaults
                /\ faults' = faults + 1
                /\ sess' = "broken"
                /\ pending' = <<>>
                /\ error_samples' = AddSample(error_samples, "row error")
                /\ rowFails' = rowFails + 1
                /\ UNCHANGED geo_features
       \/ \* the store rejects the row's geometry
          /\ Usable(sess)
          /\ ~RowInsertable(features[batch[k]])
          /\ sess' = "aborted"
          /\ pending' = <<>>
          /\ error_samples' = AddSample(error_samples, "row error")
          /\ rowFails' = rowFails + 1
          /\ UNCHANGED <<geo_features, faults, inserted>>
       \/ \* the transaction is aborted or the connection lost: the INSERT raises
          /\ ~Usable(sess)
          /\ error_samples' = AddSample(error_samples, "row error")
          /\ rowFails' = rowFails + 1
          /\ UNCHANGED <<geo_features, pending, sess, faults, inserted>>
       \/ \* a store fault on the INSERT
          /\ Usable(sess)
          /\ faults < MaxFaults
          /\ faults' = faults + 1
          /\ sess' \in FaultStates(sess)
          /\ pending' = <<>>
          /\ error_samples' = AddSample(error_samples, "row error")
          /\ rowFails' = rowFails + 1
          /\ UNCHANGED <<geo_features, inserted>>
    /\ UNCHANGED <<inputVars, sideVars, submitVars, tables, geo_layers, import_jobs, tmp_file, rpc, pc,
                   parseVars, processed, errors, loopVars, exc, escaped,
                   remove_failed, flushLog, fbStart, layerCalls, removeCalls>>

\* Variant: the whole batch counted as errors after a fallback.
ErrorsAfterFallbackWholeBatch(e, n, inserted_ok) == e + n

\* errors += len(batch) - inserted_ok
ErrorsAfterFallback(e, n, inserted_ok) == e + (n - inserted_ok)

\* The fallback's last `await db.commit()` and its return; then
\* processed += len(batch); errors += len(batch) - inserted_ok
FallbackReturn ==
    /\ pc = "fallback"
    /\ k > Len(batch)
    /\ \/ \* the commit succeeds (an aborted transaction ends by rollback)
          /\ sess # "broken"
          /\ geo_features' = IF sess = "open" THEN geo_features \o pending
                             ELSE geo_features
          /\ pending' = <<>>
          /\ sess' = "idle"
          /\ processed' = ProcessedAfterFlush(processed, Len(batch))
          /\ errors' = ErrorsAfterFallback(errors, Len(batch), inserted)
          /\ pc' = "fallback_progress"
          /\ UNCHANGED <<faults, exc, batch, i>>
       \/ \* the commit raises on a broken session
          /\ sess = "broken"
          /\ exc' = "store unavailable"
          /\ LeaveToHandler
          /\ UNCHANGED <<geo_features, pending, sess, processed, errors, faults>>
       \/ \* a store fault on the commit
          /\ sess = "open"
          /\ faults < MaxFaults
          /\ faults' = faults + 1
          /\ sess' = "broken"
          /\ pending' = <<>>
          /\ exc' = "store unavailable"
          /\ LeaveToHandler
          /\ UNCHANGED <<geo_features, processed, errors>>
    /\ UNCHANGED <<inputVars, sideVars, submitVars, tables, geo_layers, import_jobs, tmp_file, rpc,
                   parseVars, error_samples, site, fbVars, escaped, remove_failed, histVars>>

\* await _update_job(.. message="Batch fallback: ..") inside the except block.
FallbackProgress ==
    /\ pc = "fallback_progress"
    /\ \/ /\ import_jobs' = UpdateJob(import_jobs, job_id,
                [processed |-> processed, errors |-> errors,
                 message |-> Message("fallback", inserted, Len(batch), errors,
                                     error_samples, "")])
          /\ ContinueAfterFlush
          /\ UNCHANGED <<sess, faults, exc>>
       \/ /\ faults < MaxFaults
          /\ faults' = faults + 1
          /\ sess' \in FaultStates(sess)
          /\ exc' = "store unavailable"
          /\ LeaveToHandler
          /\ UNCHANGED import_jobs
    /\ UNCHANGED <<inputVars, sideVars, submitVars, tables, geo_layers, geo_features, tmp_file, rpc,
                   pending, parseVars, countVars, site, fbVars, escaped, remove_failed, histVars>>

\* await _update_job(db, job_id, status_val="completed", message=final_msg)
Complete ==
    /\ pc = "complete"
    /\ \/ /\ import_jobs' = UpdateJob(import_jobs, job_id,
                [status |-> "completed",
                 message |-> Message("completed", processed, total, errors,
                                     error_samples, "")])
          /\ pc' = "cleanup"
          /\ UNCHANGED <<sess, faults, exc>>
       \/ /\ faults < MaxFaults
          /\ faults' = faults + 1
          /\ sess' \in FaultStates(sess)
          /\ exc' = "store unavailable"
          /\ pc' = "handler"
          /\ UNCHANGED import_jobs
    /\ UNCHANGED <<inputVars, sideVars, submitVars, tables, geo_layers, geo_features, tmp_file, rpc,
                   pending, parseVars, countVars, loopVars, fbVars, escaped, remove_failed, histVars>>

\* Variant: the handler puts the job back to queued.
FailedUpdateRequeue(e) ==
    [status |-> "queued", message |-> Message("error", 0, 0, 0, <<>>, e)]

\* The fields of the handler's update: status_val="failed", message=str(e)
FailedUpdate(e) ==
    [status |-> "failed", message |-> Message("error", 0, 0, 0, <<>>, e)]

\* Variant: an exception that leaves the except block skips the cleanup.
AfterHandlerUnlessRaised(raised) == IF raised THEN "done" ELSE "cleanup"

\* try/except/finally: the finally block runs after the except block,
\* whether or not the except block raised.
AfterHandler(raised) == "cleanup"

\* except Exception as e: await _update_job(.., status_val="failed", message=str(e))
\* An exception of this update leaves the task.
Handler ==
    /\ pc = "handler"
    /\ \/ /\ Usable(sess)
          /\ import_jobs' = UpdateJob(import_jobs, job_id, FailedUpdate(exc))
          /\ UNCHANGED <<sess, faults, escaped>>
       \/ /\ ~Usable(sess)
          /\ escaped' = TRUE
          /\ UNCHANGED <<import_jobs, sess, faults>>
       \/ /\ Usable(sess)
          /\ faults < MaxFaults
          /\ faults' = faults + 1
          /\ sess' \in FaultStates(sess)
          /\ escaped' = TRUE
          /\ UNCHANGED import_jobs
    /\ pc' = AfterHandler(escaped')
    /\ UNCHANGED <<inputVars, sideVars, submitVars, tables, geo_layers, geo_features, tmp_file, rpc,
                   pending, parseVars, countVars, loopVars, fbVars, exc,
                   remove_failed, histVars>>

\* Variant: the cleanup leaves the file where it is.
RemoveTempSkipped(present) == present

\* os.remove(tmp_path): the file is gone.
RemoveTemp(present) == FALSE

\* finally: try: os.remove(tmp_path) except Exception: pass
\* then the session is closed (anything uncommitted is rolled back).
Cleanup ==
    /\ pc = "cleanup"
    /\ \/ /\ tmp_file' = RemoveTemp(tmp_file)
          /\ UNCHANGED remove_failed
       \/ /\ remove_failed' = TRUE
          /\ UNCHANGED tmp_file
    /\ removeCalls' = removeCalls + 1
    /\ pending' = <<>>
    /\ pc' = "done"
    /\ UNCHANGED <<inputVars, sideVars, submitVars, storeVars, rpc, sess, faults,
                   parseVars, countVars, loopVars, fbVars, exc, escaped,
                   flushLog, rowFails, fbStart, layerCalls>>

Next ==
    \/ SubmitEnsureTables
    \/ SubmitUpsertLayer
    \/ SubmitSaveUpload
    \/ SubmitCreateJob
    \/ TaskEnsureTables
    \/ MarkProcessing
    \/ Parse
    \/ SetTotal
    \/ TaskUpsertLayer
    \/ LoopStep
    \/ AfterLoop
    \/ FlushBatch
    \/ Progress
    \/ BatchExcept
    \/ FallbackRow
    \/ FallbackReturn
    \/ FallbackProgress
    \/ Complete
    \/ Handler
    \/ Cleanup

Spec == Init /\ [][Next]_vars

\* ------------------------------- concurrent callers of _upsert_layer
\* Two sessions (two submissions, two pipeline runs, or one of each) run
\*     await _upsert_layer(db, name, title, srid); await db.commit()
\* against the same store at the default isolation level (READ COMMITTED).
\* PostgreSQL makes an INSERT .. ON CONFLICT wait for an uncommitted row of
\* the same key in another transaction and decides when that transaction
\* has ended; each statement sees what is committed when it starts, and the
\* rows of its own transaction.  Ids come from the table's sequence, which
\* no transaction shares a value of.

MaxNameLen == 1
NameChars == {"a", "A", "-", "_"}
Names == SeqsUpTo(NameChars, MaxNameLen) \ {<<>>}
Titles == {<<>>, <<"A">>}
Srids == {DefaultSrid, 3067}
Callers == {"first", "second"}

\* No request, no task and no file: only the store is at work.
NoImport ==
    /\ payload = [kind |-> "collection", features |-> <<>>]
    /\ batch_size = 1
    /\ sample_limit = 1
    /\ RunInit

LayerInit ==
    /\ NoImport
    /\ tables = AllTables
    /\ geo_layers = {}
    /\ geo_features = <<>>
    /\ import_jobs = <<>>
    /\ calls \in [Callers ->
            {[name |-> n, title |-> t, srid |-> sr, pc |-> "insert", tx |-> {},
              id |-> 0, waited |-> FALSE] : n \in Names, t \in Titles, sr \in Srids}]
    /\ lookup = NoLookup
    /\ lastUpdate = NoUpdate
    /\ reply = NoReply

runVars == <<inputVars, tmp_file, rpc, taskVars, histVars, submitVars>>

\* The characters that names, titles and queries are made of.
Lowercase == {"a", "d", "e", "i", "n", "o", "p", "s", "t", "y"}
Uppercase == {"A", "D", "E", "I", "N", "O", "P", "S", "T", "Y"}
IsLetterOrDigit(c) == c \in Lowercase \cup Uppercase

\* lower() of one character.
LowerChar(c) ==
    CASE c = "A" -> "a" [] c = "D" -> "d" [] c = "E" -> "e" [] c = "I" -> "i"
      [] c = "N" -> "n" [] c = "O" -> "o" [] c = "P" -> "p" [] c = "S" -> "s"
      [] c = "T" -> "t" [] c = "Y" -> "y" [] OTHER -> c

\* The uncommitted rows of the other callers.
HeldByOthers(c) == UNION {calls[d].tx : d \in Callers \ {c}}

\* Variant: a plain INSERT, which raises on a name that exists.
InsertRaisesOnConflict(conflict) == conflict

\* ON CONFLICT (name) DO NOTHING: a row of that name is no error.
InsertRaises(conflict) == FALSE

\* The INSERT of _upsert_layer in session c.
InsertLayer(c) ==
    /\ calls[c].pc \in {"insert", "waiting"}
    /\ LET me == calls[c]
           all == geo_layers \cup me.tx \cup HeldByOthers(c)
       IN  IF \E l \in HeldByOthers(c) : l.name = me.name
           THEN \* the statement waits for the other transaction to end
                calls' = [calls EXCEPT ![c].pc = "waiting", ![c].waited = TRUE]
           ELSE IF InsertRaises(\E l \in geo_layers \cup me.tx : l.name = me.name)
           THEN calls' = [calls EXCEPT ![c].pc = "failed"]
           ELSE calls' = [calls EXCEPT
                    ![c].tx = me.tx \cup
                        (UpsertLayer(all, me.name, me.title, me.srid) \ all),
                    ![c].pc = "select"]
    /\ UNCHANGED <<runVars, storeVars, lookup, lastUpdate, reply>>

\* SELECT id FROM geo_layers WHERE name = :name; no id is HTTP 500.
SelectLayerId(c) ==
    /\ calls[c].pc = "select"
    /\ LET found == LayerIdOf(geo_layers \cup calls[c].tx, calls[c].name)
       IN  calls' = [calls EXCEPT ![c].id = found,
                                  ![c].pc = IF found = 0 THEN "failed" ELSE "commit"]
    /\ UNCHANGED <<runVars, storeVars, lookup, lastUpdate, reply>>

\* await db.commit() after _upsert_layer returned.
CommitLayer(c) ==
    /\ calls[c].pc = "commit"
    /\ geo_layers' = geo_layers \cup calls[c].tx
    /\ calls' = [calls EXCEPT ![c].tx = {}, ![c].pc = "done"]
    /\ UNCHANGED <<runVars, tables, geo_features, import_jobs, lookup, lastUpdate,
                   reply>>

LayerNext ==
    \/ \E c \in Callers : InsertLayer(c)
    \/ \E c \in Callers : SelectLayerId(c)
    \/ \E c \in Callers : CommitLayer(c)

LayerSpec == LayerInit /\ [][LayerNext]_vars

\* ------------------------------------------------ calls of _update_job
\* _update_job called with any job id and any choice of its keyword
\* arguments (an argument left at None adds nothing to the SET list), on a
\* table that holds a job in progress and a queued one.

MaxUpdates == 2

JobFields == {"status", "processed", "total", "errors", "message"}

Restrict(f, S) == [x \in S |-> f[x]]

\* The keyword arguments that are not None, as a record.
UpdateArgs ==
    {Restrict([status |-> st, processed |-> p, total |-> 2, errors |-> 0,
               message |-> Message("error", 0, 0, 0, <<>>, "boom")], S) :
        st \in {"processing", "failed"}, p \in {0, 2}, S \in SUBSET JobFields}

InProgressJob ==
    [NewJob(LayerName) EXCEPT !.status = "processing", !.total = 3,
                              !.processed = 1, !.errors = 1,
                              !.message = Message("progress", 1, 3, 1, <<>>, ""),
                              !.updated_at = 2]

JobInit ==
    /\ NoImport
    /\ tables = AllTables
    /\ geo_layers = {}
    /\ geo_features = <<>>
    /\ import_jobs = <<InProgressJob, NewJob(LayerName)>>
    /\ calls = NoCalls
    /\ lookup = NoLookup
    /\ lastUpdate = NoUpdate
    /\ reply = NoReply

\* await _update_job(db, id, **upd): the UPDATE and its commit.
UpdateJobCall ==
    /\ lastUpdate.n < MaxUpdates
    /\ \E id \in 1..(Len(import_jobs) + 1), upd \in UpdateArgs :
          /\ import_jobs' = UpdateJob(import_jobs, id, upd)
          /\ lastUpdate' = [n |-> lastUpdate.n + 1, id |-> id, upd |-> upd]
    /\ UNCHANGED <<runVars, tables, geo_layers, geo_features, calls, lookup, reply>>

JobNext == UpdateJobCall

JobSpec == JobInit /\ [][JobNext]_vars

\* ------------------------------------------------- the read endpoints
\* get_import_job and admin_list_layers of routes/admin.py, list_layers and
\* get_layer_geojson of routes/layers.py, called at any moment of a
\* submission, on a database that starts without tables.  At each call the
\* store answers, or it is unreachable and the first statement of the
\* handler raises with one of the driver's messages.

\* str(e).lower() of the exception of an unreachable store, word by word.
UnreachableMessages ==
    {<<"connection", "was", "closed", "in", "the", "middle", "of", "operation">>,
     <<"connect", "call", "failed">>,
     <<>>}

StoreConditions == {<<"ok">>} \cup UnreachableMessages

\* The words that make list_layers and get_layer_geojson degrade.
Keywords ==
    {<<"connection">>, <<"timeout">>, <<"closed">>,
     <<"terminating", "connection">>, <<"cannot", "connect">>}

IsInfix(kw, msg) ==
    \E j \in 0..(Len(msg) - Len(kw)) : SubSeq(msg, j + 1, j + Len(kw)) = kw

\* any(s in str(e).lower() for s in [...])
HasKeyword(msg) == \E kw \in Keywords : IsInfix(kw, msg)

\* COALESCE(cnt.count, 0): the number of features of a layer.
FeatureCount(lid) ==
    Cardinality({j \in 1..Len(geo_features) : geo_features[j].layer_id = lid})

\* The rows that both layer listings return.
LayerSummaries ==
    {[name |-> l.name, title |-> l.title, srid |-> l.srid,
      feature_count |-> FeatureCount(l.id)] : l \in geo_layers}

\* regexp_replace(s, '[^a-z0-9]+', '_', 'g'): every longest run of
\* characters other than lower-case letters and digits becomes one "_".
RECURSIVE RegexpReplace(_)
RegexpReplace(s) ==
    IF s = <<>> THEN <<>>
    ELSE IF Head(s) \in Lowercase THEN <<Head(s)>> \o RegexpReplace(Tail(s))
    ELSE IF Len(s) > 1 /\ s[2] \notin Lowercase THEN RegexpReplace(Tail(s))
    ELSE <<"_">> \o RegexpReplace(Tail(s))

\* lower(regexp_replace(s, '[^a-z0-9]+', '_', 'g'))
Slug(s) == LET r == RegexpReplace(s) IN [j \in 1..Len(r) |-> LowerChar(r[j])]

\* The WHERE clause of the layer lookup: the name or the title matches.
MatchingLayers(layers, q) ==
    {l \in layers : Slug(l.name) = Slug(q) \/ Slug(l.title) = Slug(q)}

\* The layer names asked for in GET /geojson/{layer_name}.
Queries ==
    {LayerName,
     <<"P", "o", "p", " ", "D", "e", "n", "s", "i", "t", "y">>,
     <<"p", "o", "p", "_", "d", "e", "n", "s", "i", "t", "y">>,
     <<"p", "o", "p", " ", "-", "d", "e", "n", "s", "i", "t", "y">>,
     <<"d", "e", "n", "s", "i", "t", "y">>}

ApiInit ==
    /\ NoImport
    /\ StoreInit
    /\ calls = NoCalls
    /\ lookup = NoLookup
    /\ lastUpdate = NoUpdate
    /\ reply = NoReply

\* GET /import-jobs/{job_id}: one SELECT, no try block; 404 without a row.
GetImportJob ==
    /\ \E id \in 1..(Len(import_jobs) + 1), cond \in StoreConditions :
          reply' =
            IF cond \in UnreachableMessages
            THEN [NoReply EXCEPT !.op = "get_import_job", !.status_code = 500,
                                 !.error = "unreachable"]
            ELSE IF "import_jobs" \notin tables
            THEN [NoReply EXCEPT !.op = "get_import_job", !.status_code = 500,
                                 !.error = "undefined_table"]
            ELSE IF id \notin DOMAIN import_jobs
            THEN [NoReply EXCEPT !.op = "get_import_job", !.status_code = 404]
            ELSE [NoReply EXCEPT !.op = "get_import_job", !.status_code = 200,
                                 !.job = <<import_jobs[id]>>]
    /\ UNCHANGED <<runVars, storeVars, calls, lookup, lastUpdate>>

\* GET /admin/layers: one SELECT over geo_layers and geo_features, no try
\* block.
AdminListLayers ==
    /\ \E cond \in StoreConditions :
          reply' =
            IF cond \in UnreachableMessages
            THEN [NoReply EXCEPT !.op = "admin_list_layers", !.status_code = 500,
                                 !.error = "unreachable"]
            ELSE IF ~(GeoTables \subseteq tables)
            THEN [NoReply EXCEPT !.op = "admin_list_layers", !.status_code = 500,
                                 !.error = "undefined_table"]
            ELSE [NoReply EXCEPT !.op = "admin_list_layers", !.status_code = 200,
                                 !.layers = LayerSummaries]
    /\ UNCHANGED <<runVars, storeVars, calls, lookup, lastUpdate>>

\* GET /layers/list: _ensure_geo_tables, the SELECT; an exception whose
\* message has one of the keywords gives the empty list with a note, any
\* other HTTP 500.
ListLayers ==
    /\ \E cond \in StoreConditions :
          IF cond \in UnreachableMessages
          THEN /\ reply' =
                    IF HasKeyword(cond)
                    THEN [NoReply EXCEPT !.op = "list_layers", !.status_code = 200,
                                         !.note = "db_unavailable",
                                         !.error = "unreachable"]
                    ELSE [NoReply EXCEPT !.op = "list_layers", !.status_code = 500,
                                         !.error = "unreachable"]
               /\ UNCHANGED tables
          ELSE /\ tables' = EnsureGeoTables(tables)
               /\ reply' = [NoReply EXCEPT !.op = "list_layers", !.status_code = 200,
                                           !.layers = LayerSummaries]
    /\ UNCHANGED <<runVars, geo_layers, geo_features, import_jobs, calls, lookup,
                   lastUpdate>>

\* GET /layers/geojson/{layer_name}: _ensure_geo_tables, the lookup of the
\* layer id (LIMIT 1: any matching row), 404 without one, then the layer's
\* features; exceptions as in list_layers, with an empty collection.
GetLayerGeojson ==
    /\ \E q \in Queries, cond \in StoreConditions :
          IF cond \in UnreachableMessages
          THEN /\ lookup' = [NoLookup EXCEPT
                                !.q = q,
                                !.status_code = IF HasKeyword(cond) THEN 200 ELSE 500,
                                !.error = "unreachable"]
               /\ UNCHANGED tables
          ELSE /\ tables' = EnsureGeoTables(tables)
               /\ \/ /\ MatchingLayers(geo_layers, q) = {}
                     /\ lookup' = [NoLookup EXCEPT !.q = q, !.status_code = 404]
                  \/ \E l \in MatchingLayers(geo_layers, q) :
                        lookup' = [NoLookup EXCEPT
                            !.q = q, !.status_code = 200, !.id = l.id,
                            !.features = SelectSeq(geo_features,
                                            LAMBDA r : r.layer_id = l.id)]
    /\ UNCHANGED <<runVars, geo_layers, geo_features, import_jobs, calls, reply,
                   lastUpdate>>

ApiNext ==
    \/ SubmitEnsureTables
    \/ SubmitUpsertLayer
    \/ SubmitSaveUpload
    \/ SubmitCreateJob
    \/ GetImportJob
    \/ AdminListLayers
    \/ ListLayers
    \/ GetLayerGeojson

ApiSpec == ApiInit /\ [][ApiNext]_vars

\* ------------------------------------- an import polled while it runs
\* The client polls GET /import-jobs/{job_id} at any moment of the import.

\* The imports that are polled: short feature collections of dicts, the
\* uploads whose jobs get as far as writing their counters.
PollInit ==
    /\ Init
    /\ payload.kind = "collection"
    /\ Len(payload.features) <= MaxFeatures
    /\ \A j \in 1..Len(payload.features) : payload.features[j] # "malformed"
    /\ sample_limit = 1

PollNext ==
    \/ Next
    \/ GetImportJob

PollSpec == PollInit /\ [][PollNext]_vars

\* ------------------------------------------------------------- the claims

\* The job row of this submission, once it exists.
JobExists == job_id # 0
Job == import_jobs[job_id]
StatusOf == IF JobExists THEN Job.status ELSE "none"
Terminal(st) == st \in {"completed", "failed"}

\* C2 as claimed: the status of a job changes only by queued->processing,
\* processing->completed or processing->failed.
C2_OnlyThroughProcessing ==
    [][StatusOf' # StatusOf =>
        <<StatusOf, StatusOf'>> \in {<<"none", "queued">>, <<"queued", "processing">>,
                                     <<"processing", "completed">>,
                                     <<"processing", "failed">>}]_vars

\* C2 amended: the status of a job changes only by queued->processing,
\* queued->failed, processing->completed or processing->failed, and never
\* after completed or failed.
C2_StatusMonotonic ==
    [][StatusOf' # StatusOf =>
        <<StatusOf, StatusOf'>> \in {<<"none", "queued">>, <<"queued", "processing">>,
                                     <<"queued", "failed">>,
                                     <<"processing", "completed">>,
                                     <<"processing", "failed">>}]_vars

\* C2 witness: a job whose only update so far is the one that made it failed.
C2_Witness == JobExists /\ Job.status = "failed" /\ Job.updated_at = 1

\* Each feature of the upload has a valid geometry or none at all.
WellFormed ==
    /\ payload.kind = "collection"
    /\ \A j \in 1..Len(payload.features) : payload.features[j] \in {"valid", "none"}

NoneCount(fs) == Cardinality({j \in 1..Len(fs) : fs[j] = "none"})

\* C1 as claimed: for a well-formed collection and a store that never
\* raises, the job ends completed with processed + errors = total in its
\* job record.
C1_ProcessedPlusErrorsIsTotal ==
    (pc = "done" /\ WellFormed /\ faults = 0) =>
        /\ Job.status = "completed"
        /\ Job.processed + Job.errors = Job.total

\* C3 as claimed: a feature without geometry is never put in a batch and
\* never persisted, and once the job is terminal the errors field of its
\* record counts each such feature exactly once.
C3_MissingGeometryCounted ==
    /\ \A j \in 1..Len(batch) : features[batch[j]] # "none"
    /\ \A j \in 1..Len(pending) : features[pending[j].feat] # "none"
    /\ \A j \in 1..Len(geo_features) : features[geo_features[j].feat] # "none"
    /\ (JobExists /\ Terminal(Job.status) /\ WellFormed /\ faults = 0) =>
            Job.errors = NoneCount(features)

\* C4 as claimed: after the fallback pass of a batch whose bulk insert
\* failed on invalid geometry, every row of the batch with a valid
\* geometry is persisted.
C4_FallbackKeepsValidRows ==
    (pc = "fallback_progress" /\ exc = "invalid geometry" /\ faults = 0) =>
        \A j \in 1..Len(batch) :
            features[batch[j]] = "valid" =>
                \E r \in 1..Len(geo_features) : geo_features[r].feat = batch[j]

\* C5: when a fallback pass over a batch of n rows returns, it has inserted
\* at most n rows, n is at most batch_size, and the errors count has grown
\* by exactly the number of rows of the batch that raised individually.
C5_FallbackAccounting ==
    [][(pc = "fallback" /\ pc' = "fallback_progress") =>
        /\ Len(batch) <= batch_size
        /\ inserted <= Len(batch)
        /\ Len(geo_features') - fbStart <= Len(batch)
        /\ errors' = errors + rowFails]_vars

\* C5 witness: a fallback pass returned in which some rows were inserted and
\* some raised.
C5_Witness == pc = "fallback_progress" /\ inserted > 0 /\ rowFails > 0

AllHaveGeometry ==
    /\ payload.kind = "collection"
    /\ \A j \in 1..Len(payload.features) : HasGeometry(payload.features[j])

\* The batches of features 1..n taken b at a time, in order.
ExpectedBatches(n, b) ==
    [c \in 1..((n + b - 1) \div b) |->
        [j \in 1..(IF c * b <= n THEN b ELSE n - (c - 1) * b) |-> (c - 1) * b + j]]

IsPrefix(s, t) == Len(s) <= Len(t) /\ \A j \in 1..Len(s) : s[j] = t[j]

\* C6: for N features that all have geometry and batch size B, the batches
\* flushed are, in order, floor(N/B) batches of B consecutive features and
\* then one of N mod B when that is not zero; with valid geometries and a
\* store that never raises the job ends completed, processed = N, errors = 0.
C6_BatchesPartitionFeatures ==
    AllHaveGeometry =>
        LET expected == ExpectedBatches(Len(payload.features), batch_size)
        IN  /\ IsPrefix(flushLog, expected)
            /\ (JobExists /\ Job.status = "completed") => flushLog = expected
            /\ (pc = "done" /\ WellFormed /\ faults = 0) =>
                    /\ Job.status = "completed"
                    /\ Job.processed = Len(payload.features)
                    /\ Job.errors = 0

\* C6 witness: a completed job that flushed a full batch and then a
\* partial one.
C6_Witness ==
    /\ AllHaveGeometry
    /\ JobExists /\ Job.status = "completed"
    /\ Len(flushLog) >= 2
    /\ Len(flushLog[1]) = batch_size
    /\ Len(flushLog[Len(flushLog)]) < batch_size

C8_RunEndsTerminal == pc = "done" => Terminal(Job.status)

\* C9 as claimed: a job whose payload is a feature collection and whose
\* store never raises ends completed.
C9_PerFeatureProblemsNotFatal ==
    (pc = "done" /\ payload.kind = "collection" /\ faults = 0) =>
        Job.status = "completed"

\* C10 as claimed: whenever the job's status is completed or failed, the
\* temp upload file is absent.
C10_AbsentWheneverTerminal ==
    (JobExists /\ Terminal(Job.status)) => ~tmp_file

\* C10 amended: when the job's status is completed or failed and the
\* pipeline run has finished its cleanup step, the temp upload file is
\* absent, unless os.remove itself raised.
C10_AbsentAfterCleanup ==
    (pc = "done" /\ Terminal(Job.status) /\ ~remove_failed) => ~tmp_file

\* C10 witness: a finished run of a terminal job whose file is gone.
C10_Witness == pc = "done" /\ Terminal(Job.status) /\ ~tmp_file

\* A step of the pipeline run.
TaskStep ==
    \/ TaskEnsureTables \/ MarkProcessing \/ Parse \/ SetTotal \/ TaskUpsertLayer
    \/ LoopStep \/ AfterLoop \/ FlushBatch \/ Progress \/ BatchExcept
    \/ FallbackRow \/ FallbackReturn \/ FallbackProgress \/ Complete
    \/ Handler \/ Cleanup

\* C11: a pipeline run calls os.remove on the job's temp file exactly once
\* on every exit path: no call is made before the run's last step, a run
\* that has not ended can always take a further step, and a run that has
\* ended (after completion, a parse failure, an error of any step, or an
\* error raised by the update to failed) has made exactly one call.
C11_RemoveAttemptedOnce ==
    /\ removeCalls = (IF pc = "done" THEN 1 ELSE 0)
    /\ pc \notin {"unscheduled", "done"} => ENABLED TaskStep

\* C11 witness: a run that ended with the exception of the handler's own
\* update, after one call of os.remove.
C11_Witness == pc = "done" /\ escaped /\ removeCalls = 1

\* C12 as claimed: the temp file written by a submission is removed on
\* every exit path of the submission: once the request has ended and no
\* pipeline run is left to come, the file is absent (unless os.remove
\* itself raised), also when the request failed after the upload was
\* written and before a job was committed or a run scheduled.
C12_TempFileRemoved ==
    (rpc \in {"returned", "http500"} /\ pc \in {"unscheduled", "done"}
        /\ ~remove_failed) => ~tmp_file

\* The step in which import_geojson returns its result.
Returns == rpc # "returned" /\ rpc' = "returned"

\* C17: the step in which a submission succeeds commits exactly one new job
\* record, with status queued, hands exactly one pipeline run for that job
\* id to the background tasks and returns that id with status queued while
\* no pipeline step has been taken; job records and scheduled runs appear
\* in no other step, and the pipeline takes its first step only when the
\* request has returned and the queued job record is committed.
C17_SubmissionQueuesOneJob ==
    [][/\ Returns =>
            /\ Len(import_jobs') = Len(import_jobs) + 1
            /\ \A j \in DOMAIN import_jobs : import_jobs'[j] = import_jobs[j]
            /\ import_jobs'[Len(import_jobs')].status = "queued"
            /\ bg_tasks' = <<Len(import_jobs')>>
            /\ response' = [status_code |-> 200, job_id |-> Len(import_jobs'),
                            status |-> "queued"]
            /\ pc = "unscheduled" /\ pc' = "scheduled"
       /\ (Len(import_jobs') # Len(import_jobs) \/ bg_tasks' # bg_tasks) => Returns
       /\ pc = "unscheduled" => pc' \in {"unscheduled", "scheduled"}
       /\ (pc = "scheduled" /\ pc' # pc) =>
            /\ rpc = "returned"
            /\ bg_tasks = <<job_id>>
            /\ job_id \in DOMAIN import_jobs
            /\ import_jobs[job_id].status = "queued"]_vars

\* C17 witness: the request has returned job 1 as queued, the job record
\* is committed and the pipeline run is scheduled but has taken no step.
C17_Witness ==
    /\ rpc = "returned"
    /\ response = Accepted(1)
    /\ import_jobs = <<NewJob(LayerName)>>
    /\ bg_tasks = <<1>>
    /\ pc = "scheduled"

\* ------------------------------------------------ claims on layer upsert

Done(c) == calls[c].pc = "done"
RowsNamed(layers, name) == {l \in layers : l.name = name}

\* Two strings differ only in letter case and in which non-alphanumeric
\* separators they use: place by place they have the same letter in either
\* case, or a separator each.
SameUpToCaseAndSeparators(s, t) ==
    /\ Len(s) = Len(t)
    /\ \A j \in 1..Len(s) :
          IF IsLetterOrDigit(s[j])
          THEN IsLetterOrDigit(t[j]) /\ LowerChar(s[j]) = LowerChar(t[j])
          ELSE ~IsLetterOrDigit(t[j])

\* C13: upserting the same name twice, with any titles and srids, returns
\* the same layer id both times and leaves exactly one layer of that name,
\* with the title that the first call wrote: on every table the sessions
\* produce, for each of their names, the second call leaves the table as
\* the first left it; and two sessions that upserted the same name and
\* committed hold the id of the one row of that name.
C13_UpsertTwiceSameLayer ==
    /\ \A n \in {calls[c].name : c \in Callers},
          t1 \in Titles, t2 \in Titles, s1 \in Srids, s2 \in Srids :
          LET once == UpsertLayer(geo_layers, n, t1, s1)
              twice == UpsertLayer(once, n, t2, s2)
          IN  /\ LayerIdOf(once, n) # 0
              /\ LayerIdOf(twice, n) = LayerIdOf(once, n)
              /\ Cardinality(RowsNamed(twice, n)) = 1
              /\ twice = once
    /\ \A c \in Callers, d \in Callers :
          (c # d /\ Done(c) /\ Done(d) /\ calls[c].name = calls[d].name) =>
              /\ calls[c].id = calls[d].id
              /\ \E l \in geo_layers :
                    /\ RowsNamed(geo_layers, calls[c].name) = {l}
                    /\ l.id = calls[c].id

\* C13 witness: two committed upserts of one name with different titles and
\* srids; the row has the title and srid of one of them.
C13_Witness ==
    \E c \in Callers, d \in Callers :
        /\ Done(c) /\ Done(d)
        /\ calls[c].name = calls[d].name
        /\ calls[c].title # <<>> /\ calls[d].title = <<>>
        /\ calls[c].srid # calls[d].srid
        /\ \E l \in geo_layers :
              /\ l.id = calls[d].id
              /\ l.title = calls[c].title
              /\ l.srid = calls[c].srid

\* Session c has a statement to run that waits for no other session.
CanProceed(c) ==
    \/ calls[c].pc \in {"select", "commit"}
    \/ /\ calls[c].pc \in {"insert", "waiting"}
       /\ \A l \in HeldByOthers(c) : l.name # calls[c].name

\* C14: when two sessions upsert the same new name concurrently, no call
\* fails, the sessions never wait for each other for good, no two rows ever
\* share a name, and once both have committed exactly one row of that name
\* exists and both hold its id.
C14_RaceLeavesOneRow ==
    /\ \A c \in Callers : calls[c].pc # "failed"
    /\ (\E c \in Callers : ~Done(c)) => \E c \in Callers : CanProceed(c)
    /\ \A l1 \in geo_layers, l2 \in geo_layers : l1.name = l2.name => l1 = l2
    /\ \A c \in Callers, d \in Callers :
          (c # d /\ Done(c) /\ Done(d) /\ calls[c].name = calls[d].name) =>
              /\ Cardinality(RowsNamed(geo_layers, calls[c].name)) = 1
              /\ \A l \in RowsNamed(geo_layers, calls[c].name) :
                    calls[c].id = l.id /\ calls[d].id = l.id

\* C14 witness: both sessions committed an upsert of the same name after
\* one of them had to wait for the other's uncommitted row.
C14_Witness ==
    \E c \in Callers, d \in Callers :
        /\ c # d /\ Done(c) /\ Done(d)
        /\ calls[c].name = calls[d].name
        /\ calls[d].waited
        /\ calls[c].id = calls[d].id /\ calls[c].id # 0

\* C16 as claimed: layer upsert matches on the normalized name: no two
\* rows have names that differ only in letter case or separators, and two
\* committed upserts of such names hold the same layer id.
C16_UpsertMatchesNormalizedName ==
    /\ \A l1 \in geo_layers, l2 \in geo_layers :
          SameUpToCaseAndSeparators(l1.name, l2.name) => l1 = l2
    /\ \A c \in Callers, d \in Callers :
          (Done(c) /\ Done(d)
              /\ SameUpToCaseAndSeparators(calls[c].name, calls[d].name)) =>
                  calls[c].id = calls[d].id

\* ------------------------------------------------ claims on _update_job

\* C18: an update of job id changes, among status, processed, total, errors
\* and message, exactly the fields the caller supplied, to the values
\* supplied; it advances updated_at, keeps every other field of that job,
\* and keeps every other job as it was.
C18_UpdateChangesOnlySupplied ==
    [][lastUpdate' # lastUpdate =>
        LET id == lastUpdate'.id
            upd == lastUpdate'.upd
        IN  /\ DOMAIN import_jobs' = DOMAIN import_jobs
            /\ \A j \in DOMAIN import_jobs :
                  j # id => import_jobs'[j] = import_jobs[j]
            /\ id \in DOMAIN import_jobs =>
                  /\ \A f \in JobFields :
                        import_jobs'[id][f] =
                            IF f \in DOMAIN upd THEN upd[f] ELSE import_jobs[id][f]
                  /\ import_jobs'[id].layer_name = import_jobs[id].layer_name
                  /\ import_jobs'[id].updated_at > import_jobs[id].updated_at]_vars

\* C18 witness: after an update of the first job that supplied processed = 0
\* and total only, its other fields and the second job are as before.
C18_Witness ==
    /\ lastUpdate.id = 1
    /\ DOMAIN lastUpdate.upd = {"processed", "total"}
    /\ import_jobs[1].processed = 0
    /\ import_jobs[1].status = InProgressJob.status
    /\ import_jobs[1].errors = InProgressJob.errors
    /\ import_jobs[2] = NewJob(LayerName)

\* ------------------------------------------- claims on the read endpoints

\* The ids a lookup of q may resolve to.
ResolvableIds(layers, q) == {l.id : l \in MatchingLayers(layers, q)}

\* C15 as claimed: the layer lookup ignores letter case and separator
\* differences: when a lookup has been answered from the store, every query
\* that differs from the one asked only in letter case and in its
\* separators resolves to the same layer, or to none if none was found.
C15_LookupIgnoresCaseAndSeparators ==
    [][(lookup' # lookup /\ lookup'.error = "") =>
        \A q2 \in Queries :
            SameUpToCaseAndSeparators(lookup'.q, q2) =>
                ResolvableIds(geo_layers', q2) =
                    (IF lookup'.status_code = 404 THEN {} ELSE {lookup'.id})]_vars

\* C19 as claimed: a layer listing asked for while the store is unreachable
\* answers with an empty list and the advisory note, not with an error, on
\* every listing endpoint.
C19_ListingDegradesGracefully ==
    (reply.op \in {"list_layers", "admin_list_layers"}
        /\ reply.error = "unreachable") =>
            /\ reply.status_code = 200
            /\ reply.layers = {}
            /\ reply.note = "db_unavailable"

\* C20 as claimed: submission, job status query and layer listing touch
\* the store only after the ensure-schema step has run, so none of them
\* ever queries a table that does not exist; and the step changes nothing
\* when the tables exist.
C20_SchemaEnsuredBeforeUse ==
    /\ reply.error # "undefined_table"
    /\ rpc \in {"upsert", "save_upload", "create_job", "returned"} =>
            AllTables \subseteq tables
    /\ AllTables \subseteq tables => EnsureTables(tables) = tables

\* ------------------------------------------- claims on flush and fallback

\* C21 as claimed: the row fallback runs for a batch only if the bulk
\* insert of that batch raised: the except block of a flush is entered only
\* from the bulk insert, never from a later step of a batch whose bulk
\* insert was committed.
C21_FallbackOnlyAfterFailedFlush ==
    [][(pc # "batch_except" /\ pc' = "batch_except") => pc = "flush"]_vars

\* C22: a bulk flush is all-or-nothing: when _flush_batch returns, the rows
\* persisted are those persisted before followed by every row of the batch;
\* when it raises, the rows persisted are exactly those persisted before.
C22_FlushAllOrNothing ==
    [][/\ (pc = "flush" /\ pc' = "progress") =>
            geo_features' = geo_features \o
                [j \in 1..Len(batch) |-> [feat |-> batch[j], layer_id |-> layer_id]]
       /\ (pc = "flush" /\ pc' = "batch_except") =>
            geo_features' = geo_features]_vars

\* C22 witness: the second flush raised on a rejected geometry and the rows
\* of the first flush are the rows persisted.
C22_Witness ==
    /\ pc = "batch_except"
    /\ exc = "invalid geometry"
    /\ Len(flushLog) = 2
    /\ Len(flushLog[1]) > 1
    /\ Len(geo_features) = Len(flushLog[1])

\* C23 as claimed: the count that the row fallback returns equals the
\* number of rows of the batch that are committed to geo_features when it
\* returns.
C23_FallbackCountIsCommitted ==
    [][(pc = "fallback" /\ pc' = "fallback_progress") =>
        inserted = Len(geo_features') - fbStart]_vars

\* C24 as claimed: at every progress update and at completion, the
\* processed field of the job record equals the number of rows the job has
\* persisted in geo_features.
C24_ProcessedIsPersisted ==
    [][(pc \in {"progress", "fallback_progress", "complete"}
            /\ import_jobs' # import_jobs) =>
        import_jobs'[job_id].processed = Len(geo_features')]_vars

\* C25 as claimed: when a job is completed, the processed, total and errors
\* numbers of its final message equal the processed, total and errors
\* fields of its job record.
C25_FinalMessageMatchesRecord ==
    (JobExists /\ Job.status = "completed") =>
        /\ Job.message.kind = "completed"
        /\ Job.message.processed = Job.processed
        /\ Job.message.total = Job.total
        /\ Job.message.errors = Job.errors

\* ------------------------------------------- claims on the job's counters

\* The job row as the last successful poll returned it.
Polled == reply.job[1]
PollAnswered(r) == r.op = "get_import_job" /\ r.status_code = 200

\* C26: the processed and errors values committed to the job record never
\* decrease from one committed update to the next, and a successful status
\* poll never observes a smaller processed or errors value than the
\* successful poll before it.
C26_CountersNeverDecrease ==
    [][/\ (JobExists /\ JobExists') =>
            /\ import_jobs'[job_id].processed >= import_jobs[job_id].processed
            /\ import_jobs'[job_id].errors >= import_jobs[job_id].errors
       /\ (PollAnswered(reply) /\ PollAnswered(reply')) =>
            /\ reply'.job[1].processed >= reply.job[1].processed
            /\ reply'.job[1].errors >= reply.job[1].errors]_vars

\* A poll saw the counters after the first flush, and the record has been
\* updated past them since: processed and errors have both grown.
C26_Witness ==
    /\ PollAnswered(reply)
    /\ Polled.processed > 0
    /\ JobExists
    /\ Job.processed > Polled.processed
    /\ Job.errors > Polled.errors

\* ------------------------------------------------ claims on the layer id

\* The task's positions before its call of _upsert_layer.
BeforeLayer == {"unscheduled", "scheduled", "mark_processing", "parse",
                "set_total", "upsert_layer"}

\* C27: the task calls _upsert_layer at most once, never before the payload
\* has been parsed and its total recorded, and exactly once before the first
\* flush and before the completion; every row the job has executed or
\* committed, through the bulk insert or the row fallback, carries the id
\* that call returned, which is the id of the layer named in the request.
C27_LayerResolvedOnce ==
    /\ layerCalls <= 1
    /\ pc \in BeforeLayer => layerCalls = 0
    /\ layerCalls = 1 =>
          /\ ParseOutcome(payload).ok
          /\ features = ParseOutcome(payload).features
          /\ Job.total = Len(features)
    /\ (flushLog # <<>> \/ pc = "complete" \/ StatusOf = "completed") =>
          /\ layerCalls = 1
          /\ layer_id # 0
          /\ layer_id = LayerIdOf(geo_layers, LayerName)
    /\ \A j \in 1..Len(geo_features) : geo_features[j].layer_id = layer_id
    /\ \A j \in 1..Len(pending) : pending[j].layer_id = layer_id

\* A finished job that persisted one batch through the bulk insert and the
\* next through the row fallback.
C27_Witness ==
    /\ pc = "done"
    /\ StatusOf = "completed"
    /\ Len(flushLog) = 2
    /\ fbStart = Len(flushLog[1])
    /\ inserted > 0
    /\ Len(geo_features) = fbStart + inserted

\* ----------------------------------------------- claims on error samples

\* C28: the retained sample messages are never more than sample_limit,
\* batch-level and row-level samples together; the list only grows at its
\* end; once it is full, a failing batch or row leaves it as it is, and the
\* rows that failed in a fallback pass are still all added to errors when
\* the pass returns.
C28_SamplesCapped ==
    [][/\ Len(error_samples') <= sample_limit
       /\ IsPrefix(error_samples, error_samples')
       /\ Len(error_samples) = sample_limit => error_samples' = error_samples
       /\ (pc = "fallback" /\ pc' = "fallback_progress"
              /\ Len(error_samples) = sample_limit) =>
            errors' = errors + rowFails]_vars

\* A fallback pass has returned after more failures than the cap allows
\* samples: one failing batch and at least sample_limit failing rows, all
\* of the rows counted in errors.
C28_Witness ==
    /\ pc = "fallback_progress"
    /\ Len(error_samples) = sample_limit
    /\ rowFails >= sample_limit
    /\ errors >= rowFails

\* -------------------------------------------- claims on double counting

\* The features of the upload that carry a geometry.
GeometryBearing == {j \in 1..Len(features) : HasGeometry(features[j])}

\* C29 as claimed: no feature of the upload is persisted in two rows, and
\* the job never has more rows persisted than the upload has features with
\* a geometry.
C29_NoFeaturePersistedTwice ==
    /\ \A a, b \in 1..Len(geo_features) :
          geo_features[a].feat = geo_features[b].feat => a = b
    /\ Len(geo_features) <= Cardinality(GeometryBearing)

\* C30 as claimed: once the total has been recorded, the job record has
\* 0 <= processed <= total and 0 <= errors <= total.
C30_CountersWithinTotal ==
    (JobExists /\ Job.total # Null) =>
        /\ 0 <= Job.processed /\ Job.processed <= Job.total
        /\ 0 <= Job.errors /\ Job.errors <= Job.total
====
